---- MODULE Spec2Model ----
(***************************************************************************)
(* A model of lightrag-mcp: the process supervisor of process_manager.py,  *)
(* the operation facade of lightrag_client.py and the tool handlers of     *)
(* server.py.                                                              *)
(***************************************************************************)
EXTENDS Integers, Sequences, FiniteSets, TLC

\* Number of subprocesses the supervisor may launch in one run of the model.
MaxLaunch == 2

\* The grace period of stop(), in seconds (process.wait(timeout=3)).
GracePeriod == 3

Pids == 1..MaxLaunch
\* The value of self.process before start() and after stop(): Python's None.
NoProcess == 0
Streams == {"stdout", "stderr"}

VARIABLES
    process,      \* LightRAGProcessManager.process: NoProcess or the pid of the Popen object
    launched,     \* how many subprocesses subprocess.Popen has launched
    procState,    \* per pid: "unborn", "running", "zombie" (exited, not waited for),
                  \*          "reaped" (Popen holds the return code), "gone" (reaped elsewhere)
    streamState,  \* per pid and stream: "open", "by_stop" or "by_drain" (who closed it)
    drain,        \* per pid and stream: the log_output thread: "none", "reading", "done", "crashed"
    atexitHooks,  \* how many times self.stop is registered with atexit
    signals,      \* the os.kill calls made, in order: [pid, sig, delivered]
    pc,           \* where the control thread stands inside stop_lightrag_server()
    frame,        \* the call in progress: what it saw on entry and what happened so far
    last,         \* the call that has just returned, until its caller has the result
    worker,       \* where a second thread stands inside start(): "idle" or "start_popen"
    lightrag_client,  \* server.lightrag_client: NoClient or the number of the instance
    is_initialized,   \* server.is_initialized
    clientsBuilt,     \* how many LightRAGClient instances have been constructed
    inv,              \* the last tool invocation: its input, the facade's outcome, the envelope
    openFiles,        \* how many file handles the facade has opened and not closed
    mainPc,           \* main(): "boot", "serving" (inside mcp.run), "returned",
                      \*         "interrupted" or "failed" (sys.exit(1))
    autostart,        \* config.LIGHTRAG_AUTOSTART
    closedClients,    \* the LightRAGClient instances whose transport close() has closed
    tasks             \* per concurrent tool invocation: the await it is suspended at,
                      \* its tool and the client it took from server.lightrag_client

supVars == <<process, launched, procState, streamState, drain, atexitHooks,
             signals, pc, frame, last, worker>>

toolVars == <<lightrag_client, is_initialized, clientsBuilt, inv, openFiles,
              mainPc, autostart, closedClients, tasks>>

vars == <<process, launched, procState, streamState, drain, atexitHooks,
          signals, pc, frame, last, worker, lightrag_client, is_initialized,
          clientsBuilt, inv, openFiles, mainPc, autostart, closedClients, tasks>>

NoFrame == [op |-> "none"]

\* The value of server.lightrag_client before init_lightrag(): Python's None.
NoClient == 0
NoInvocation == [tool |-> "none"]

\* Number of tool invocations the event loop may have in progress at once.
MaxTasks == 2

TaskIds == 1..MaxTasks
NoTask == [pc |-> "idle", tool |-> "none", client |-> NoClient]

(***************************************************************************)
(* subprocess.Popen, as the supervisor uses it.                            *)
(***************************************************************************)

\* Popen.poll() is None: the child has not exited.
PollIsNone(p) == procState[p] = "running"

\* What Popen.poll() leaves behind: a child that has exited is reaped and its
\* return code kept (a child reaped elsewhere reads as return code 0).
AfterPoll(p) ==
    IF procState[p] \in {"zombie", "gone"}
    THEN [procState EXCEPT ![p] = "reaped"]
    ELSE procState

\* os.kill(pid, sig): the pid exists while the child runs or is a zombie.
KillRaises(p) == procState[p] \in {"reaped", "gone"}

\* LightRAGProcessManager.is_running
IsRunning == process # NoProcess /\ PollIsNone(process)

\* The state is_running() leaves: it polls only when there is a process.
AfterIsRunning == IF process = NoProcess THEN procState ELSE AfterPoll(process)

\* LightRAGProcessManager.get_pid
GetPidValue == IF process # NoProcess /\ IsRunning THEN process ELSE NoProcess

\* A start() that does not look at the process it holds.
StartSeesRunningUnchecked == FALSE

\* The condition of the first line of start(): self.process and self.is_running().
StartSeesRunning == process # NoProcess /\ IsRunning

\* A stop() that asks only whether it holds a process, not whether it runs.
StopSeesRunningUnpolled == process # NoProcess

\* The condition of the first line of stop(): self.process and self.is_running().
StopSeesRunning == process # NoProcess /\ IsRunning

\* The exceptions the handler around process.wait(timeout=3) catches.
WaitCatches == {"TimeoutExpired"}

\* A handler around the signals of stop() that catches nothing os.kill raises.
StopCatchesNothing == {}

\* The exceptions the handler around the signals of stop() catches.
StopCatches == {"ProcessLookupError", "OSError"}

\* How many streams stop() has closed so far.
ClosedByStop ==
    Cardinality({ps \in Pids \X Streams : streamState[ps[1]][ps[2]] = "by_stop"})

\* What a call sees on entry.
Entry(op) ==
    [op |-> op, wasRunning |-> IsRunning, pre |-> process,
     launchedBefore |-> launched, hooksBefore |-> atexitHooks,
     sigBefore |-> Len(signals), byStopBefore |-> ClosedByStop,
     waited |-> 0, timedOut |-> FALSE, caught |-> "none", exc |-> "none",
     handle |-> NoProcess, ret |-> FALSE]

Init ==
    /\ process = NoProcess
    /\ launched = 0
    /\ procState = [p \in Pids |-> "unborn"]
    /\ streamState = [p \in Pids |-> [s \in Streams |-> "open"]]
    /\ drain = [p \in Pids |-> [s \in Streams |-> "none"]]
    /\ atexitHooks = 0
    /\ signals = <<>>
    /\ pc = "idle"
    /\ frame = NoFrame
    /\ last = NoFrame
    /\ worker = "idle"
    /\ lightrag_client = NoClient
    /\ is_initialized = FALSE
    /\ clientsBuilt = 0
    /\ inv = NoInvocation
    /\ openFiles = 0
    /\ mainPc = "boot"
    /\ autostart = FALSE
    /\ closedClients = {}
    /\ tasks = [t \in TaskIds |-> NoTask]

(***************************************************************************)
(* start_lightrag_server() and LightRAGProcessManager.start                *)
(***************************************************************************)

\* start() finds the subprocess running: a warning, and the handle it holds.
StartAlreadyRunning ==
    /\ UNCHANGED <<toolVars, worker>>
    /\ pc = "idle"
    /\ last = NoFrame
    /\ StartSeesRunning
    /\ procState' = AfterIsRunning
    /\ last' = [Entry("start") EXCEPT !.handle = process, !.ret = IsRunning]
    /\ UNCHANGED <<process, launched, streamState, drain, atexitHooks, signals,
                   pc, frame>>

\* start() launches: Popen, atexit.register(self.stop), the two log threads.
StartLaunch ==
    /\ UNCHANGED <<toolVars, worker>>
    /\ pc = "idle"
    /\ last = NoFrame
    /\ ~StartSeesRunning
    /\ launched < MaxLaunch
    /\ LET new == launched + 1 IN
       /\ process' = new
       /\ launched' = new
       /\ procState' = [AfterIsRunning EXCEPT ![new] = "running"]
       /\ atexitHooks' = atexitHooks + 1
       /\ drain' = [drain EXCEPT ![new] = [s \in Streams |-> "reading"]]
       /\ last' = [Entry("start") EXCEPT !.handle = new, !.ret = TRUE]
    /\ UNCHANGED <<streamState, signals, pc, frame>>

\* Popen raises (no such executable): start() raises before it assigns
\* self.process, and start_lightrag_server() logs and returns False.
StartPopenFails ==
    /\ UNCHANGED <<toolVars, worker>>
    /\ pc = "idle"
    /\ last = NoFrame
    /\ ~StartSeesRunning
    /\ procState' = AfterIsRunning
    /\ last' = [Entry("start") EXCEPT !.exc = "OSError", !.ret = FALSE]
    /\ UNCHANGED <<process, launched, streamState, drain, atexitHooks, signals,
                   pc, frame>>

(***************************************************************************)
(* is_lightrag_server_running() and get_pid()                              *)
(***************************************************************************)

IsRunningCall ==
    /\ UNCHANGED <<toolVars, worker>>
    /\ pc = "idle"
    /\ last = NoFrame
    /\ procState' = AfterIsRunning
    /\ last' = [Entry("is_running") EXCEPT !.ret = IsRunning]
    /\ UNCHANGED <<process, launched, streamState, drain, atexitHooks, signals,
                   pc, frame>>

GetPidCall ==
    /\ UNCHANGED <<toolVars, worker>>
    /\ pc = "idle"
    /\ last = NoFrame
    /\ procState' = AfterIsRunning
    /\ last' = [Entry("get_pid") EXCEPT !.handle = GetPidValue, !.ret = GetPidValue # NoProcess]
    /\ UNCHANGED <<process, launched, streamState, drain, atexitHooks, signals,
                   pc, frame>>

(***************************************************************************)
(* stop_lightrag_server() and LightRAGProcessManager.stop                  *)
(***************************************************************************)

\* stop() when the condition of its first line is false: nothing is done, and
\* stop_lightrag_server() returns True.
StopNotRunning ==
    /\ UNCHANGED <<toolVars, worker>>
    /\ pc = "idle"
    /\ last = NoFrame
    /\ ~StopSeesRunning
    /\ procState' = AfterIsRunning
    /\ last' = [Entry("stop") EXCEPT !.ret = TRUE]
    /\ UNCHANGED <<process, launched, streamState, drain, atexitHooks, signals,
                   pc, frame>>

\* stop() enters its body: the subprocess polled as running.
StopBegin ==
    /\ UNCHANGED <<toolVars, worker>>
    /\ pc = "idle"
    /\ last = NoFrame
    /\ StopSeesRunning
    /\ procState' = AfterIsRunning
    /\ frame' = Entry("stop")
    /\ pc' = "stop_term"
    /\ UNCHANGED <<process, launched, streamState, drain, atexitHooks, signals, last>>

\* An exception raised inside the try of stop(): caught and logged when the
\* handler names it, else it leaves stop() and stop_lightrag_server() catches
\* it and returns False.
StopRaise(exc) ==
    IF exc \in StopCatches
    THEN /\ pc' = "stop_close"
         /\ frame' = [frame EXCEPT !.caught = exc]
         /\ UNCHANGED last
    ELSE /\ pc' = "idle"
         /\ frame' = NoFrame
         /\ last' = [frame EXCEPT !.exc = exc, !.ret = FALSE]

\* An os.kill call, and whether the signal was delivered.
KillCall(p, sig) == [pid |-> p, sig |-> sig, delivered |-> ~KillRaises(p)]

\* os.kill(self.process.pid, signal.SIGTERM)
StopSigterm ==
    /\ UNCHANGED <<toolVars, worker>>
    /\ pc = "stop_term"
    /\ signals' = Append(signals, KillCall(process, "SIGTERM"))
    /\ IF KillRaises(process)
       THEN StopRaise("ProcessLookupError")
       ELSE /\ pc' = "stop_wait"
            /\ UNCHANGED <<frame, last>>
    /\ UNCHANGED <<process, launched, procState, streamState, drain, atexitHooks>>

\* One second of process.wait(timeout=3) passes with the child still running.
StopWaitTick ==
    /\ UNCHANGED <<toolVars, worker>>
    /\ pc = "stop_wait"
    /\ procState[process] = "running"
    /\ frame.waited < GracePeriod
    /\ frame' = [frame EXCEPT !.waited = @ + 1]
    /\ UNCHANGED <<process, launched, procState, streamState, drain, atexitHooks,
                   signals, pc, last>>

\* process.wait(timeout=3) returns: the child has exited within the grace period.
StopWaitReturns ==
    /\ UNCHANGED <<toolVars, worker>>
    /\ pc = "stop_wait"
    /\ procState[process] # "running"
    /\ procState' = [procState EXCEPT ![process] = "reaped"]
    /\ pc' = "stop_close"
    /\ UNCHANGED <<process, launched, streamState, drain, atexitHooks, signals,
                   frame, last>>

\* A handler of TimeoutExpired that gives up instead of killing.
TimeoutHandlerGivesUp == "stop_close"

\* The handler of TimeoutExpired: a warning, then the forced kill.
TimeoutHandler == "stop_kill"

\* process.wait(timeout=3) raises TimeoutExpired: the grace period is over and
\* the child still runs.
StopWaitTimeout ==
    /\ UNCHANGED <<toolVars, worker>>
    /\ pc = "stop_wait"
    /\ procState[process] = "running"
    /\ frame.waited = GracePeriod
    /\ IF "TimeoutExpired" \in WaitCatches
       THEN /\ pc' = TimeoutHandler
            /\ frame' = [frame EXCEPT !.timedOut = TRUE]
            /\ UNCHANGED last
       ELSE StopRaise("TimeoutExpired")
    /\ UNCHANGED <<process, launched, procState, streamState, drain, atexitHooks,
                   signals>>

\* os.kill(self.process.pid, signal.SIGKILL)
StopSigkill ==
    /\ UNCHANGED <<toolVars, worker>>
    /\ pc = "stop_kill"
    /\ signals' = Append(signals, KillCall(process, "SIGKILL"))
    /\ IF KillRaises(process)
       THEN StopRaise("ProcessLookupError")
       ELSE /\ pc' = "stop_wait2"
            /\ UNCHANGED <<frame, last>>
    /\ UNCHANGED <<process, launched, procState, streamState, drain, atexitHooks>>

\* process.wait() after the forced kill: blocks until the child has exited.
StopWaitKilled ==
    /\ UNCHANGED <<toolVars, worker>>
    /\ pc = "stop_wait2"
    /\ procState[process] # "running"
    /\ procState' = [procState EXCEPT ![process] = "reaped"]
    /\ pc' = "stop_close"
    /\ UNCHANGED <<process, launched, streamState, drain, atexitHooks, signals,
                   frame, last>>

\* A stream stop() finds open is closed by it.
CloseIfOpen(st) == IF st = "open" THEN "by_stop" ELSE st

\* The tail of stop(): close the streams still open, atexit.unregister (which
\* removes every registration of self.stop), self.process = None.
StopClose ==
    /\ UNCHANGED <<toolVars, worker>>
    /\ pc = "stop_close"
    /\ streamState' = [streamState EXCEPT
                          ![process] = [s \in Streams |-> CloseIfOpen(@[s])]]
    /\ atexitHooks' = 0
    /\ process' = NoProcess
    /\ pc' = "idle"
    /\ frame' = NoFrame
    /\ last' = [frame EXCEPT !.ret = TRUE]
    /\ UNCHANGED <<launched, procState, drain, signals>>

\* The caller of start_lightrag_server(), stop_lightrag_server(),
\* is_lightrag_server_running() or get_pid() has its result.
CallReturn ==
    /\ UNCHANGED <<toolVars, worker>>
    /\ last # NoFrame
    /\ last' = NoFrame
    /\ UNCHANGED <<process, launched, procState, streamState, drain, atexitHooks,
                   signals, pc, frame>>

(***************************************************************************)
(* The subprocess and the log_output threads                               *)
(***************************************************************************)

\* The subprocess exits: by itself, on SIGTERM, or on SIGKILL.
ProcExit(p) ==
    /\ UNCHANGED <<toolVars, worker>>
    /\ procState[p] = "running"
    /\ procState' = [procState EXCEPT ![p] = "zombie"]
    /\ UNCHANGED <<process, launched, streamState, drain, atexitHooks, signals,
                   pc, frame, last>>

\* The exited child is reaped outside Popen (SIGCHLD ignored, a waitpid
\* elsewhere): its pid no longer exists, and os.kill raises ProcessLookupError.
ChildReapedElsewhere(p) ==
    /\ UNCHANGED <<toolVars, worker>>
    /\ procState[p] = "zombie"
    /\ procState' = [procState EXCEPT ![p] = "gone"]
    /\ UNCHANGED <<process, launched, streamState, drain, atexitHooks, signals,
                   pc, frame, last>>

\* log_output: readline on a closed stream raises ValueError and the thread
\* dies; at end of output the loop ends and the thread closes the stream.
DrainStep(p, s) ==
    /\ UNCHANGED <<toolVars, worker>>
    /\ drain[p][s] = "reading"
    /\ IF streamState[p][s] # "open"
       THEN /\ drain' = [drain EXCEPT ![p][s] = "crashed"]
            /\ UNCHANGED streamState
       ELSE /\ procState[p] # "running"
            /\ drain' = [drain EXCEPT ![p][s] = "done"]
            /\ streamState' = [streamState EXCEPT ![p][s] = "by_drain"]
    /\ UNCHANGED <<process, launched, procState, atexitHooks, signals, pc,
                   frame, last>>

(***************************************************************************)
(* Python values, as format_response tells them apart.                     *)
(***************************************************************************)

PyNone == [t |-> "none", v |-> <<>>, caps |-> {}]
PyStr(parts) == [t |-> "str", v |-> parts, caps |-> {}]
PyList(items) == [t |-> "list", v |-> items, caps |-> {}]
PyDict(d) == [t |-> "dict", v |-> d, caps |-> {}]
\* An object that is no dict: caps are the attributes among dict(), __dict__
\* and to_dict() it has, d its fields.
PyObj(caps, d) == [t |-> "obj", v |-> d, caps |-> caps]

\* str(x), as the parts of the text.
Str(x) ==
    CASE x.t = "none" -> <<"None">>
      [] x.t = "str" -> x.v
      [] OTHER -> <<"repr">>

\* A text is empty when every part of it is.
IsEmptyText(parts) == \A i \in DOMAIN parts : parts[i] = ""

\* The JSON payloads the external API answers with.
Payloads == {[status |-> "ok"], [status |-> "busy"]}

ObjCaps == {{"dict"}, {"__dict__", "to_dict"}, {"to_dict"}, {}}

\* What `await api_func(**kwargs)` does: the generated client returns the parsed
\* answer (None for a status it does not know) or raises.
ApiReturns ==
    {[k |-> "return", v |-> x, exc |-> "none", msg |-> ""] :
        x \in {PyNone, PyStr(<<"text">>)}
              \cup {PyDict(d) : d \in Payloads}
              \cup {PyObj(c, d) : c \in ObjCaps, d \in Payloads}}

\* A transport failure (connection refused, timeout: str(e) may be empty) or a
\* status outside 2xx.
ApiRaises ==
    {[k |-> "raise", v |-> PyNone, exc |-> e, msg |-> m] :
        e \in {"ConnectError", "UnexpectedStatus"},
        m \in {"", "All connection attempts failed"}}

ApiOutcomes == ApiReturns \cup ApiRaises

\* Two answers, for the invocations that fail before they reach the API.
ApiOk == [k |-> "return", v |-> PyDict([status |-> "ok"]), exc |-> "none", msg |-> ""]
ApiRefused ==
    [k |-> "raise", v |-> PyNone, exc |-> "ConnectError",
     msg |-> "All connection attempts failed"]

\* The exceptions of the model that derive from Exception.
ExceptionClasses ==
    {"ValueError", "FileNotFoundError", "IsADirectoryError", "PermissionError",
     "AttributeError", "ConnectError", "UnexpectedStatus"}

(***************************************************************************)
(* LightRAGClient: the operation facade.  An outcome holds what the method *)
(* returned or raised, the outbound calls it issued, how many error and    *)
(* warning records it logged and how many file handles it left open.       *)
(***************************************************************************)

Returned(v, calls, errs, warns) ==
    [k |-> "return", v |-> v, exc |-> "none", msg |-> "", calls |-> calls,
     errLogs |-> errs, warnLogs |-> warns, leaked |-> 0]

Raised(exc, msg, calls, errs, warns) ==
    [k |-> "raise", v |-> PyNone, exc |-> exc, msg |-> msg, calls |-> calls,
     errLogs |-> errs, warnLogs |-> warns, leaked |-> 0]

\* _handle_exception: one logger.error, whichever the exception.
HandleExceptionLogs == 1

\* _call_api: the call, and on an exception _handle_exception and raise.
CallApi(route, body, api) ==
    LET call == <<[route |-> route, body |-> body]>> IN
    IF api.k = "return"
    THEN Returned(api.v, call, 0, 0)
    ELSE Raised(api.exc, api.msg, call, HandleExceptionLogs, 0)

\* query: QueryRequestMode(mode) raises ValueError for a mode that is none of
\* the enumeration's, before anything is called.
Query(text, modeValid, api) ==
    IF ~modeValid
    THEN Raised("ValueError", "not a valid QueryRequestMode", <<>>, 0, 0)
    ELSE CallApi("POST /query", [kind |-> "query", items |-> <<text.v>>], api)

RECURSIVE Reverse(_)
Reverse(q) == IF Len(q) = 0 THEN <<>> ELSE Append(Reverse(Tail(q)), Head(q))

\* An insert_text that hands the texts of a list over last first.
InsertTextReversed(text, api) ==
    IF text.t = "list"
    THEN CallApi("POST /documents/texts",
                 [kind |-> "texts", items |-> Reverse(text.v)], api)
    ELSE CallApi("POST /documents/text", [kind |-> "text", items |-> <<text.v>>], api)

\* insert_text: a list goes to insert_texts, anything else to insert_document.
InsertText(text, api) ==
    IF text.t = "list"
    THEN CallApi("POST /documents/texts", [kind |-> "texts", items |-> text.v], api)
    ELSE CallApi("POST /documents/text", [kind |-> "text", items |-> <<text.v>>], api)

\* A File(payload=f) over the handle of the file named name.
FilePayload(name, isOpen) == [name |-> name, open |-> isOpen]

\* What open(file_path, "rb") raises, by the kind of the path.
OpenRaises(path) ==
    CASE path = "missing" -> "FileNotFoundError"
      [] path = "dir" -> "IsADirectoryError"
      [] path = "unreadable" -> "PermissionError"
      [] OTHER -> "none"

\* A body that closes its handle only when the call returned.
WithExitClosesOnReturn(body) == body.k = "return"

\* `with open(file_path, "rb") as f`: the handle is closed when the block is
\* left, by a return or by an exception.
WithExitCloses(body) == TRUE

\* upload_document and insert_file: the same body, another route.
FileOperation(route, path, api) ==
    IF path = ""
    THEN Raised("ValueError", "no file path given", <<>>, 1, 0)
    ELSE IF OpenRaises(path) = "FileNotFoundError"
    THEN Raised("FileNotFoundError", "no such file", <<>>, 1, 0)
    ELSE IF OpenRaises(path) # "none"
    THEN Raised(OpenRaises(path), "cannot open", <<>>, HandleExceptionLogs, 0)
    ELSE LET r == CallApi(route, [kind |-> "file",
                                  items |-> <<FilePayload(path, TRUE)>>], api)
             left == IF WithExitCloses(r) THEN 0 ELSE 1 IN
         IF r.k = "return"
         THEN [r EXCEPT !.leaked = left]
         ELSE [r EXCEPT !.leaked = left, !.errLogs = @ + HandleExceptionLogs]

UploadDocument(path, api) == FileOperation("POST /documents/upload", path, api)

InsertFile(path, api) == FileOperation("POST /documents/file", path, api)

\* The loop of insert_batch over directory.iterdir(): every regular file that
\* opens is appended as a File over its handle, and the with statement closes
\* the handle as soon as the File is appended.
RECURSIVE GatherFiles(_, _)
GatherFiles(entries, i) ==
    IF i > Len(entries)
    THEN <<>>
    ELSE (IF entries[i] = "readable"
          THEN <<FilePayload(i, FALSE)>>
          ELSE <<>>) \o GatherFiles(entries, i + 1)

\* One logger.warning for every regular file that does not open.
GatherWarnings(entries) ==
    Cardinality({i \in DOMAIN entries : entries[i] = "unreadable"})

\* An insert_batch that does not test the list it gathered.
NoFilesFoundUntested(files) == FALSE

\* `if not files_list`
NoFilesFound(files) == Len(files) = 0

\* insert_batch
InsertBatch(path, entries, api) ==
    IF path = ""
    THEN Raised("ValueError", "no directory path given", <<>>, 1, 0)
    ELSE IF path \in {"missing", "file"}
    THEN Raised("ValueError", "not a directory", <<>>, 1, 0)
    ELSE IF path = "unlistable"
    THEN Raised("PermissionError", "cannot list", <<>>, 0, 0)
    ELSE LET files == GatherFiles(entries, 1)
             warns == GatherWarnings(entries) IN
         IF NoFilesFound(files)
         THEN Returned(PyNone, <<>>, 0, warns + 1)
         ELSE LET r == CallApi("POST /documents/file_batch",
                               [kind |-> "files", items |-> files], api) IN
              IF r.k = "return"
              THEN [r EXCEPT !.warnLogs = warns]
              ELSE [r EXCEPT !.warnLogs = warns,
                             !.errLogs = @ + HandleExceptionLogs]

NoBody == [kind |-> "none", items |-> <<>>]

ScanForNewDocuments(api) == CallApi("POST /documents/scan", NoBody, api)

GetDocuments(api) == CallApi("GET /documents", NoBody, api)

GetPipelineStatus(api) == CallApi("GET /documents/pipeline_status", NoBody, api)

GetGraphLabels(api) == CallApi("GET /graph/label/list", NoBody, api)

\* get_health
GetHealth(api) == CallApi("GET /health", NoBody, api)

(***************************************************************************)
(* server.py: format_response, init_lightrag and the tool handlers.        *)
(***************************************************************************)

ErrorEnvelope(parts) == [status |-> "error", error |-> parts]

SuccessEnvelope(x) == [status |-> "success", response |-> x]

\* A format_response without the isinstance(result, dict) branch: a mapping
\* ends as its text.
FormatResponseNoDictBranch(result, is_error) ==
    IF is_error
    THEN ErrorEnvelope(Str(result))
    ELSE SuccessEnvelope(PyStr(Str(result)))

\* format_response
FormatResponse(result, is_error) ==
    IF is_error
    THEN IF result.t = "str"
         THEN ErrorEnvelope(result.v)
         ELSE ErrorEnvelope(Str(result))
    ELSE IF result.t = "dict"
    THEN SuccessEnvelope(result)
    ELSE IF "dict" \in result.caps
    THEN SuccessEnvelope(PyDict(result.v))
    ELSE IF "__dict__" \in result.caps
    THEN SuccessEnvelope(PyDict(result.v))
    ELSE IF "to_dict" \in result.caps
    THEN SuccessEnvelope(PyDict(result.v))
    ELSE SuccessEnvelope(PyStr(Str(result)))

Tools ==
    {"query_document", "insert_document", "upload_document", "insert_file",
     "insert_batch", "scan_for_new_documents", "get_documents",
     "get_pipeline_status", "get_graph_labels", "check_lightrag_health"}

\* The facade method a tool calls, on the tool's arguments.
Facade(in) ==
    CASE in.tool = "query_document" -> Query(in.text, in.modeValid, in.api)
      [] in.tool = "insert_document" -> InsertText(in.text, in.api)
      [] in.tool = "upload_document" -> UploadDocument(in.path, in.api)
      [] in.tool = "insert_file" -> InsertFile(in.path, in.api)
      [] in.tool = "insert_batch" -> InsertBatch(in.path, in.entries, in.api)
      [] in.tool = "scan_for_new_documents" -> ScanForNewDocuments(in.api)
      [] in.tool = "get_documents" -> GetDocuments(in.api)
      [] in.tool = "get_pipeline_status" -> GetPipelineStatus(in.api)
      [] in.tool = "get_graph_labels" -> GetGraphLabels(in.api)
      [] in.tool = "check_lightrag_health" -> GetHealth(in.api)

\* The handlers that test `if result is None`.
ChecksNone(tool) ==
    tool \in {"query_document", "insert_document", "insert_batch",
              "get_documents", "get_pipeline_status"}

\* The text a handler answers a None result with.
NoneMessage(tool) ==
    CASE tool = "query_document" -> "Empty answer from the LightRAG API"
      [] tool = "insert_document" -> "Could not add the text"
      [] tool = "insert_batch" -> "Could not add the documents of the directory"
      [] tool = "get_documents" -> "Could not get the list of documents"
      [] tool = "get_pipeline_status" -> "Could not get the pipeline status"
      [] OTHER -> ""

\* logger.error calls of the None branch: query_document alone logs there.
NoneLogs(tool) == IF tool = "query_document" THEN 1 ELSE 0

\* The text a handler puts before str(e).
ErrorPrefix(tool) ==
    CASE tool = "query_document" -> "Error querying the LightRAG API: "
      [] tool = "insert_document" -> "Error adding the text: "
      [] tool = "upload_document" -> "Error uploading the file: "
      [] tool = "insert_file" -> "Error adding the file: "
      [] tool = "insert_batch" -> "Error adding the documents of the directory: "
      [] tool = "scan_for_new_documents" -> "Error scanning the directory: "
      [] tool = "get_documents" -> "Error getting the list of documents: "
      [] tool = "get_pipeline_status" -> "Error getting the pipeline status: "
      [] tool = "get_graph_labels" -> "Error getting the graph labels: "
      [] OTHER -> "Error checking the LightRAG API: "

\* error_msg = f"<prefix>{str(e)}"
ErrorMessage(tool, msg) == <<ErrorPrefix(tool), msg>>

\* logger.error calls of a handler's except clause: check_lightrag_health logs
\* the message and a hint.
ExceptLogs(tool) == IF tool = "check_lightrag_health" THEN 2 ELSE 1

\* A handler that catches the failures of the HTTP client alone.
HandlerCatchesHttpOnly(exc) == exc \in {"ConnectError", "UnexpectedStatus"}

\* `except Exception` of the handlers.
HandlerCatches(exc) == exc \in ExceptionClasses

\* The try block of a handler on the facade's outcome: the envelope it returns,
\* the error records it logs and the exception that leaves it.
Handle(tool, out) ==
    IF out.k = "raise"
    THEN IF HandlerCatches(out.exc)
         THEN [envelope |-> FormatResponse(PyStr(ErrorMessage(tool, out.msg)), TRUE),
               logs |-> ExceptLogs(tool), escaped |-> "none"]
         ELSE [envelope |-> [status |-> "none"], logs |-> 0, escaped |-> out.exc]
    ELSE IF ChecksNone(tool) /\ out.v.t = "none"
    THEN [envelope |-> FormatResponse(PyStr(<<NoneMessage(tool)>>), TRUE),
          logs |-> NoneLogs(tool), escaped |-> "none"]
    ELSE [envelope |-> FormatResponse(out.v, FALSE), logs |-> 0,
          escaped |-> "none"]

\* What the try block of init_lightrag raises: what get_health raised, or the
\* AttributeError of health.get on an answer that is no mapping.
ProbeRaises(api) ==
    LET h == GetHealth(api) IN
    IF h.k = "raise" THEN h.exc
    ELSE IF h.v.t # "dict" THEN "AttributeError"
    ELSE "none"

\* A probe that catches the failures of the transport alone.
ProbeCatchesTransportOnly(exc) == exc \in {"ConnectError", "UnexpectedStatus"}

\* `except Exception` of init_lightrag.
ProbeCatches(exc) == exc \in ExceptionClasses

\* The exception that leaves init_lightrag, "none" when it returns.
ProbeEscapes(api) ==
    IF ProbeRaises(api) # "none" /\ ~ProbeCatches(ProbeRaises(api))
    THEN ProbeRaises(api)
    ELSE "none"

\* The probe of init_lightrag: health.get("status") on what get_health
\* returned, every exception caught and logged.
Probe(api) ==
    IF ProbeEscapes(api) # "none" THEN "raised"
    ELSE IF ProbeRaises(api) # "none" THEN "error"
    ELSE IF GetHealth(api).v.v.status = "ok" THEN "ok"
    ELSE "warning"

\* Bounds of the inputs.
MaxTexts == 2
MaxDirEntries == 3

Texts == {"a", "b"}

SeqsUpTo(S, n) == UNION {[1..k -> S] : k \in 0..n}

TextArgs == {PyStr(x) : x \in Texts} \cup {PyList(l) : l \in SeqsUpTo(Texts, MaxTexts)}

FilePaths == {"", "missing", "dir", "unreadable", "file"}

DirPaths == {"", "missing", "file", "unlistable", "dir"}

EntryKinds == {"readable", "unreadable", "subdir"}

NoText == PyStr("")

Input(tool, text, modeValid, path, entries, api) ==
    [tool |-> tool, text |-> text, modeValid |-> modeValid, path |-> path,
     entries |-> entries, api |-> api]

\* The answers worth telling apart: all of them where the facade reaches the
\* API on these arguments, two where it returns or raises before.
ApisFor(reaches) == IF reaches THEN ApiOutcomes ELSE {ApiOk, ApiRefused}

HasReadable(entries) == \E i \in DOMAIN entries : entries[i] = "readable"

\* The arguments of a tool invocation and the answer of the external API to it.
ToolInputs ==
    {in \in {Input("query_document", PyStr("a"), m, "", <<>>, a) :
                m \in BOOLEAN, a \in ApiOutcomes} :
        in.api \in ApisFor(in.modeValid)}
    \cup {Input("insert_document", t, TRUE, "", <<>>, a) :
        t \in TextArgs, a \in ApiOutcomes}
    \cup {in \in {Input(tl, NoText, TRUE, p, <<>>, a) :
                tl \in {"upload_document", "insert_file"}, p \in FilePaths,
                a \in ApiOutcomes} :
        in.api \in ApisFor(in.path = "file")}
    \cup {Input("insert_batch", NoText, TRUE, p, <<>>, a) :
        p \in DirPaths \ {"dir"}, a \in ApisFor(FALSE)}
    \cup {in \in {Input("insert_batch", NoText, TRUE, "dir", e, a) :
                e \in SeqsUpTo(EntryKinds, MaxDirEntries), a \in ApiOutcomes} :
        in.api \in ApisFor(HasReadable(in.entries))}
    \cup {Input(tl, NoText, TRUE, "", <<>>, a) :
        tl \in {"scan_for_new_documents", "get_documents", "get_pipeline_status",
                "get_graph_labels", "check_lightrag_health"},
        a \in ApiOutcomes}

\* A handler that asks the flag instead of the handle.
NeedsInitByFlag == ~is_initialized

\* `if lightrag_client is None`, the first test of every handler.
NeedsInit == lightrag_client = NoClient

\* A tool invocation, from its first line to its return.  With no client yet
\* it runs init_lightrag first: the client is constructed, the probe is made
\* and is_initialized is set.  init_lightrag is awaited outside the handler's
\* try block: an exception that left it would leave the handler too.
ToolInvoke(in, probeApi) ==
    /\ UNCHANGED <<supVars, mainPc, autostart, closedClients, tasks>>
    /\ mainPc = "serving"
    /\ inv = NoInvocation
    /\ LET runsInit == NeedsInit /\ ~is_initialized
           client == IF runsInit THEN clientsBuilt + 1 ELSE lightrag_client
           initEscaped == IF runsInit THEN ProbeEscapes(probeApi) ELSE "none"
           out == Facade(in)
           h == Handle(in.tool, out)
           entry == [tool |-> in.tool, input |-> in,
                     clientBefore |-> lightrag_client, processBefore |-> process,
                     probe |-> IF runsInit THEN Probe(probeApi) ELSE "none",
                     probeExc |-> IF runsInit THEN ProbeRaises(probeApi) ELSE "none"]
           nothing == Returned(PyNone, <<>>, 0, 0)
       IN
       /\ lightrag_client' = client
       /\ clientsBuilt' = IF runsInit THEN clientsBuilt + 1 ELSE clientsBuilt
       /\ is_initialized' = (is_initialized \/ (runsInit /\ initEscaped = "none"))
       /\ openFiles' = openFiles
                         + (IF client = NoClient \/ initEscaped # "none"
                            THEN 0 ELSE out.leaked)
       /\ inv' = IF initEscaped # "none"
                 THEN entry @@ [out |-> nothing, envelope |-> [status |-> "none"],
                                logs |-> 0, escaped |-> initEscaped]
                 ELSE IF client = NoClient
                 THEN entry @@ [out |-> nothing,
                                envelope |-> FormatResponse(
                                    PyStr(<<"Could not initialise the LightRAG API client">>), TRUE),
                                logs |-> 0, escaped |-> "none"]
                 ELSE entry @@ [out |-> out, envelope |-> h.envelope,
                                logs |-> h.logs, escaped |-> h.escaped]

\* The handler's return: the envelope goes to the caller of the tool.
ToolReturn ==
    /\ mainPc = "serving"
    /\ inv # NoInvocation
    /\ inv' = NoInvocation
    /\ UNCHANGED <<supVars, lightrag_client, is_initialized, clientsBuilt,
                   openFiles, mainPc, autostart, closedClients, tasks>>

\* Inputs are drawn where an invocation can begin.
InputsNow == IF mainPc = "serving" /\ inv = NoInvocation THEN ToolInputs ELSE {}

\* The probe is made by the first invocation alone.
ProbeApis == IF lightrag_client = NoClient /\ ~is_initialized THEN ApiOutcomes ELSE {ApiOk}

(***************************************************************************)
(* main.py: main(), the life of the hosting process.                       *)
(***************************************************************************)

serverVars == <<lightrag_client, is_initialized, clientsBuilt, inv, openFiles, tasks>>

\* The ways main() ends.
Exited == {"returned", "interrupted", "failed"}

\* main() up to mcp.run: the arguments are parsed, the configuration is set,
\* the directories are made and the server starts to serve.
MainRun(flag) ==
    /\ mainPc = "boot"
    /\ autostart' = flag
    /\ mainPc' = "serving"
    /\ UNCHANGED <<supVars, serverVars, closedClients>>

\* An exception before the server serves (os.makedirs, mcp.run): it is logged
\* and main() ends with sys.exit(1).
MainStartFails(flag) ==
    /\ mainPc = "boot"
    /\ autostart' = flag
    /\ mainPc' = "failed"
    /\ UNCHANGED <<supVars, serverVars, closedClients>>

\* mcp.run returns: main() returns.
MainReturns ==
    /\ mainPc = "serving"
    /\ mainPc' = "returned"
    /\ UNCHANGED <<supVars, serverVars, autostart, closedClients>>

\* `except KeyboardInterrupt`: a log record, main() returns.
MainInterrupted ==
    /\ mainPc = "serving"
    /\ mainPc' = "interrupted"
    /\ UNCHANGED <<supVars, serverVars, autostart, closedClients>>

\* `except Exception` around mcp.run: a log record and sys.exit(1).
MainFails ==
    /\ mainPc = "serving"
    /\ mainPc' = "failed"
    /\ UNCHANGED <<supVars, serverVars, autostart, closedClients>>

\* LightRAGClient.close: the transport of the instance is closed.  Nothing in
\* main.py or server.py calls it, so no step of the model takes it.
Close(client) ==
    /\ closedClients' = closedClients \cup {client}
    /\ UNCHANGED <<supVars, serverVars, mainPc, autostart>>

ToolNext ==
    \/ \E flag \in BOOLEAN : MainRun(flag)
    \/ \E flag \in BOOLEAN : MainStartFails(flag)
    \/ \E in \in InputsNow, probeApi \in ProbeApis : ToolInvoke(in, probeApi)
    \/ ToolReturn
    \/ MainReturns
    \/ MainInterrupted
    \/ MainFails


(***************************************************************************)
(* The handlers as the event loop runs them: coroutines that give up the   *)
(* loop at their awaits.  A step is the code between two awaits; what the  *)
(* facade's call answers is left to ToolInvoke.                            *)
(***************************************************************************)

\* A handler from its first line to its first await.  With no client it
\* enters init_lightrag, which constructs the client, assigns it to the
\* global and awaits the probe; with a client it takes the client and awaits
\* the facade's call.  An init_lightrag that returns at once leaves the
\* handler without a client, and it returns the error envelope.
HandlerEnter(t, tool) ==
    /\ mainPc = "serving"
    /\ tasks[t].pc = "idle"
    /\ IF NeedsInit /\ ~is_initialized
       THEN /\ lightrag_client' = clientsBuilt + 1
            /\ clientsBuilt' = clientsBuilt + 1
            /\ tasks' = [tasks EXCEPT ![t] =
                            [pc |-> "await_probe", tool |-> tool, client |-> NoClient]]
       ELSE /\ tasks' = [tasks EXCEPT ![t] =
                            IF lightrag_client = NoClient
                            THEN [pc |-> "done", tool |-> tool, client |-> NoClient]
                            ELSE [pc |-> "await_api", tool |-> tool,
                                  client |-> lightrag_client]]
            /\ UNCHANGED <<lightrag_client, clientsBuilt>>
    /\ UNCHANGED <<supVars, is_initialized, inv, openFiles, mainPc, autostart,
                   closedClients>>

\* The probe is answered: init_lightrag sets is_initialized and returns, the
\* handler takes the client from the global and awaits the facade's call.
ProbeAnswered(t, api) ==
    /\ tasks[t].pc = "await_probe"
    /\ IF ProbeEscapes(api) # "none"
       THEN /\ tasks' = [tasks EXCEPT ![t].pc = "done"]
            /\ UNCHANGED is_initialized
       ELSE /\ is_initialized' = TRUE
            /\ tasks' = [tasks EXCEPT ![t] =
                            IF lightrag_client = NoClient
                            THEN [@ EXCEPT !.pc = "done"]
                            ELSE [@ EXCEPT !.pc = "await_api",
                                           !.client = lightrag_client]]
    /\ UNCHANGED <<supVars, lightrag_client, clientsBuilt, inv, openFiles,
                   mainPc, autostart, closedClients>>

\* The facade's call is answered: the handler builds its envelope.
ApiAnswered(t) ==
    /\ tasks[t].pc = "await_api"
    /\ tasks' = [tasks EXCEPT ![t].pc = "done"]
    /\ UNCHANGED <<supVars, lightrag_client, is_initialized, clientsBuilt, inv,
                   openFiles, mainPc, autostart, closedClients>>

\* The envelope goes to the caller of the tool.
HandlerReturn(t) ==
    /\ tasks[t].pc = "done"
    /\ tasks' = [tasks EXCEPT ![t] = NoTask]
    /\ UNCHANGED <<supVars, lightrag_client, is_initialized, clientsBuilt, inv,
                   openFiles, mainPc, autostart, closedClients>>

AsyncNext ==
    \/ \E flag \in BOOLEAN : MainRun(flag)
    \/ \E t \in TaskIds, tool \in Tools : HandlerEnter(t, tool)
    \/ \E t \in TaskIds, api \in ApiOutcomes : ProbeAnswered(t, api)
    \/ \E t \in TaskIds : ApiAnswered(t)
    \/ \E t \in TaskIds : HandlerReturn(t)

\* The tool invocations interleaved at their awaits.
AsyncSpec == Init /\ [][AsyncNext]_vars


(***************************************************************************)
(* A second thread that calls start() while the control thread is inside   *)
(* its own calls.  start() takes no lock: the other thread may run between *)
(* its first line and its Popen.                                           *)
(***************************************************************************)

\* The first line of start() in the second thread: with a subprocess running
\* it warns and returns, else it goes on to launch.
WorkerStartCheck ==
    /\ UNCHANGED toolVars
    /\ worker = "idle"
    /\ procState' = AfterIsRunning
    /\ worker' = IF StartSeesRunning THEN "idle" ELSE "start_popen"
    /\ UNCHANGED <<process, launched, streamState, drain, atexitHooks, signals,
                   pc, frame, last>>

\* The second thread launches: Popen, atexit.register(self.stop), the two log
\* threads.
WorkerStartLaunch ==
    /\ UNCHANGED toolVars
    /\ worker = "start_popen"
    /\ launched < MaxLaunch
    /\ LET new == launched + 1 IN
       /\ process' = new
       /\ launched' = new
       /\ procState' = [procState EXCEPT ![new] = "running"]
       /\ atexitHooks' = atexitHooks + 1
       /\ drain' = [drain EXCEPT ![new] = [s \in Streams |-> "reading"]]
    /\ worker' = "idle"
    /\ UNCHANGED <<streamState, signals, pc, frame, last>>

\* Popen raises in the second thread: start() raises, nothing is assigned.
WorkerPopenFails ==
    /\ UNCHANGED toolVars
    /\ worker = "start_popen"
    /\ worker' = "idle"
    /\ UNCHANGED <<process, launched, procState, streamState, drain,
                   atexitHooks, signals, pc, frame, last>>

WorkerNext ==
    \/ WorkerStartCheck
    \/ WorkerStartLaunch
    \/ WorkerPopenFails


SupNext ==
    \/ StartAlreadyRunning
    \/ StartLaunch
    \/ StartPopenFails
    \/ IsRunningCall
    \/ GetPidCall
    \/ StopNotRunning
    \/ StopBegin
    \/ StopSigterm
    \/ StopWaitTick
    \/ StopWaitReturns
    \/ StopWaitTimeout
    \/ StopSigkill
    \/ StopWaitKilled
    \/ StopClose
    \/ CallReturn
    \/ \E p \in Pids : ProcExit(p)
    \/ \E p \in Pids : ChildReapedElsewhere(p)
    \/ \E p \in Pids, s \in Streams : DrainStep(p, s)

Next == SupNext \/ ToolNext

Spec == Init /\ [][Next]_vars

\* The supervisor and the tools share no variable: each is checked alone, the
\* supervisor under SupSpec and the tools under ToolSpec.
SupSpec == Init /\ [][SupNext]_vars

ToolSpec == Init /\ [][ToolNext]_vars

\* The supervisor called from two threads at once.
RaceSpec == Init /\ [][SupNext \/ WorkerNext]_vars

(***************************************************************************)
(* The process supervisor: claims C1 to C4, checked under SupSpec.           *)
(***************************************************************************)

\* The os.kill calls of the stop() that `last` records.
StopSignals(f) == SubSeq(signals, f.sigBefore + 1, Len(signals))

\* C1: start() called while the subprocess launched before still runs
\* launches nothing and returns the handle the supervisor holds, so that the
\* start() that launched and this one have launched one subprocess.
C1_StartWhileRunningIsNoop ==
    (last.op = "start" /\ last.wasRunning) =>
        /\ launched = last.launchedBefore
        /\ last.handle = last.pre
        /\ process = last.pre
        /\ last.exc = "none"

\* A second start() has returned, the subprocess of the first still running:
\* one subprocess has been launched.
C1_Witness ==
    /\ last.op = "start"
    /\ last.wasRunning
    /\ last.handle = 1
    /\ launched = 1
    /\ procState[1] = "running"

\* C2: no SIGKILL is sent before the SIGTERM of the same stop(); a stop()
\* whose wait of the grace period timed out has called os.kill with SIGKILL
\* after SIGTERM and returns only once the subprocess has exited; a stop()
\* whose subprocess exited within the grace period has sent no SIGKILL.
C2_ForcedKillAfterGracePeriod ==
    /\ \A i \in DOMAIN signals :
          signals[i].sig = "SIGKILL" =>
              /\ i > 1
              /\ signals[i - 1] = [pid |-> signals[i].pid, sig |-> "SIGTERM",
                                   delivered |-> TRUE]
    /\ (last.op = "stop" /\ last.wasRunning /\ last.exc = "none") =>
          LET sent == StopSignals(last) IN
          IF last.timedOut
          THEN /\ last.waited = GracePeriod
               /\ Len(sent) = 2
               /\ sent[1].sig = "SIGTERM" /\ sent[2].sig = "SIGKILL"
               /\ sent[1].pid = last.pre /\ sent[2].pid = last.pre
               /\ procState[last.pre] \in {"reaped", "gone"}
          ELSE \A i \in DOMAIN sent : sent[i].sig # "SIGKILL"
    /\ pc \in {"stop_term", "stop_wait"} =>
          \A i \in DOMAIN StopSignals(frame) : StopSignals(frame)[i].sig # "SIGKILL"

\* A stop() that returned after the grace period ran out and the kill was delivered.
C2_Witness ==
    /\ last.op = "stop"
    /\ last.wasRunning
    /\ last.timedOut
    /\ last.exc = "none"
    /\ Len(signals) = 2
    /\ signals[2] = [pid |-> last.pre, sig |-> "SIGKILL", delivered |-> TRUE]

\* C3: stop() with no process, or with a process that no longer runs, calls
\* os.kill not once, leaves the handle, the shutdown hook and the streams as
\* they were, and stop_lightrag_server() returns True.
C3_StopNotRunningIsNoop ==
    (last.op = "stop" /\ ~last.wasRunning) =>
        /\ Len(signals) = last.sigBefore
        /\ process = last.pre
        /\ atexitHooks = last.hooksBefore
        /\ ClosedByStop = last.byStopBefore
        /\ last.exc = "none"
        /\ last.ret = TRUE

\* stop() on a supervisor that never started anything.
C3_Witness ==
    /\ last.op = "stop"
    /\ ~last.wasRunning
    /\ last.pre = NoProcess
    /\ launched = 0

\* C4: when a stop() of a running subprocess returns, by whichever path, both
\* streams of the subprocess are closed, no shutdown hook is registered and
\* no exception has left stop().
C4_StopAlwaysCleansUp ==
    (last.op = "stop" /\ last.wasRunning) =>
        /\ last.exc = "none"
        /\ last.ret = TRUE
        /\ \A s \in Streams : streamState[last.pre][s] # "open"
        /\ atexitHooks = 0

\* A stop() whose SIGKILL found the subprocess gone, after one launch that
\* left a hook registered and a stream for stop() to close.
C4_Witness ==
    /\ last.op = "stop"
    /\ last.wasRunning
    /\ last.caught = "ProcessLookupError"
    /\ last.timedOut
    /\ last.hooksBefore = 1
    /\ \E s \in Streams : streamState[last.pre][s] = "by_stop"

(***************************************************************************)
(* The facade and the tool handlers: claims C5 to C10, checked under       *)
(* ToolSpec.                                                               *)
(***************************************************************************)

Invoked(tool) == inv.tool = tool

\* The two shapes of an envelope.
IsEnvelope(e) ==
    \/ e.status = "success" /\ DOMAIN e = {"status", "response"}
    \/ e.status = "error" /\ DOMAIN e = {"status", "error"}

\* The error envelope with a text that is not empty.
IsErrorEnvelope(e) ==
    /\ e.status = "error"
    /\ DOMAIN e = {"status", "error"}
    /\ ~IsEmptyText(e.error)

\* C5: on a connection failure get_health raises nothing and returns a
\* degraded status, a mapping whose status is "error".
C5_HealthNeverRaises ==
    (Invoked("check_lightrag_health") /\ inv.input.api.exc = "ConnectError") =>
        /\ inv.out.k = "return"
        /\ inv.out.v.t = "dict"
        /\ inv.out.v.v.status = "error"

\* C6: for every tool but the health check a transport failure of the
\* outbound call gives the error envelope with a text that is not empty, and
\* the facade and the handler together log one error record.
C6_TransportFailureLoggedOnce ==
    (/\ inv.tool \notin {"none", "check_lightrag_health"}
     /\ inv.out.k = "raise"
     /\ inv.out.exc = "ConnectError") =>
        /\ IsErrorEnvelope(inv.envelope)
        /\ inv.out.errLogs + inv.logs = 1

\* C7: every tool invocation, whatever the facade did, returns one of the two
\* envelopes, and no exception leaves the handler.
C7_AlwaysAnEnvelope ==
    inv.tool # "none" =>
        /\ inv.escaped = "none"
        /\ IsEnvelope(inv.envelope)
        /\ (inv.out.k = "raise" => inv.envelope.status = "error")

\* insert_file on a directory: what open() raises ends in the error envelope.
C7_Witness ==
    /\ Invoked("insert_file")
    /\ inv.input.path = "dir"
    /\ inv.out.exc = "IsADirectoryError"
    /\ inv.envelope.status = "error"

\* C8: insert_text given one string issues one call, to the route of one
\* document, with that string; given a list that is not empty it issues one
\* call, to the route of a batch of texts, with the strings in their order.
C8_InsertTextRoutes ==
    Invoked("insert_document") =>
        LET text == inv.input.text IN
        IF text.t = "list"
        THEN Len(text.v) > 0 =>
                inv.out.calls = <<[route |-> "POST /documents/texts",
                                   body |-> [kind |-> "texts", items |-> text.v]]>>
        ELSE inv.out.calls = <<[route |-> "POST /documents/text",
                                body |-> [kind |-> "text", items |-> <<text.v>>]]>>

\* insert_text(["a", "b"]) has issued its one call.
C8_Witness ==
    /\ Invoked("insert_document")
    /\ inv.input.text.t = "list"
    /\ inv.input.text.v = <<"a", "b">>
    /\ Len(inv.out.calls) = 1
    /\ inv.out.calls[1].body.items = <<"a", "b">>

\* C9: insert_text given an empty list raises ValueError (an invalid
\* argument) and issues no call.
C9_EmptyListRejected ==
    (/\ Invoked("insert_document")
     /\ inv.input.text.t = "list"
     /\ Len(inv.input.text.v) = 0) =>
        /\ inv.out.k = "raise"
        /\ inv.out.exc = "ValueError"
        /\ inv.out.calls = <<>>

\* C10: insert_batch given a directory none of whose entries is a regular
\* file that opens returns None, which the tool answers with its "no
\* documents" text, and issues no call.
C10_EmptyBatchContactsNothing ==
    (/\ Invoked("insert_batch")
     /\ inv.input.path = "dir"
     /\ ~HasReadable(inv.input.entries)) =>
        /\ inv.out.k = "return"
        /\ inv.out.v.t = "none"
        /\ inv.out.calls = <<>>
        /\ inv.envelope = ErrorEnvelope(<<NoneMessage("insert_batch")>>)

\* insert_batch on a directory holding a sub-directory and a file that does
\* not open.
C10_Witness ==
    /\ Invoked("insert_batch")
    /\ inv.input.path = "dir"
    /\ inv.input.entries = <<"subdir", "unreadable">>
    /\ inv.out.k = "return"
    /\ inv.out.calls = <<>>

(***************************************************************************)
(* The facade and the tool handlers: claims C11 to C14, checked under      *)
(* ToolSpec.                                                               *)
(***************************************************************************)

\* How many entries of a directory are of the given kind.
CountKind(entries, kind) ==
    Cardinality({i \in DOMAIN entries : entries[i] = kind})

\* C11: insert_batch given a directory with k regular files that do not open
\* and n >= 1 that do logs k warnings and issues one batch request, which
\* carries the n files that open and nothing else: one readable payload for
\* each of them.
C11_BatchCarriesReadableFiles ==
    (/\ Invoked("insert_batch")
     /\ inv.input.path = "dir"
     /\ HasReadable(inv.input.entries)) =>
        LET entries == inv.input.entries IN
        /\ inv.out.warnLogs = CountKind(entries, "unreadable")
        /\ Len(inv.out.calls) = 1
        /\ inv.out.calls[1].route = "POST /documents/file_batch"
        /\ LET items == inv.out.calls[1].body.items IN
           /\ Len(items) = CountKind(entries, "readable")
           /\ {items[j].name : j \in DOMAIN items}
                = {i \in DOMAIN entries : entries[i] = "readable"}
           /\ \A j \in DOMAIN items : items[j].open

\* C12: upload_document and insert_file given a file that opens have closed
\* its handle when the call returns, whether the request succeeded or raised,
\* and whatever calls were made before no handle is left open.
C12_FileHandleClosed ==
    /\ openFiles = 0
    /\ (/\ inv.tool \in {"upload_document", "insert_file"}
        /\ inv.input.path = "file") =>
            /\ Len(inv.out.calls) = 1
            /\ inv.out.calls[1].body.items[1].open
            /\ inv.out.leaked = 0

\* upload_document on a file that opened, the request refused.
C12_Witness ==
    /\ Invoked("upload_document")
    /\ inv.input.path = "file"
    /\ Len(inv.out.calls) = 1
    /\ inv.out.k = "raise"
    /\ inv.out.exc = "ConnectError"
    /\ inv.envelope.status = "error"

\* C13: upload_document and insert_file given a path that is no existing
\* regular file, one that does not exist or one of a directory, raise
\* FileNotFoundError and issue no call.
C13_NoRegularFileIsFileNotFound ==
    (/\ inv.tool \in {"upload_document", "insert_file"}
     /\ inv.input.path \in {"missing", "dir"}) =>
        /\ inv.out.k = "raise"
        /\ inv.out.exc = "FileNotFoundError"
        /\ inv.out.calls = <<>>

\* C14: for every tool, when the outbound call answers with a mapping P the
\* envelope is {status: "success", response: P}, P as the API gave it.
C14_MappingPassedThrough ==
    (/\ inv.tool # "none"
     /\ Len(inv.out.calls) = 1
     /\ inv.input.api.k = "return"
     /\ inv.input.api.v.t = "dict") =>
        /\ inv.escaped = "none"
        /\ inv.envelope = [status |-> "success", response |-> inv.input.api.v]

\* get_documents answered with the mapping {status: "busy"}.
C14_Witness ==
    /\ Invoked("get_documents")
    /\ Len(inv.out.calls) = 1
    /\ inv.input.api.v = PyDict([status |-> "busy"])
    /\ inv.envelope.status = "success"
    /\ inv.envelope.response.v.status = "busy"

(***************************************************************************)
(* The life of the hosting process and init_lightrag: claims C15, C16 and  *)
(* C20, checked under ToolSpec.                                            *)
(***************************************************************************)

\* C15: however main() ends, by a return, an interrupt or an exception, the
\* transport of the shared facade has been closed, and a subprocess that was
\* started automatically has had stop() called on it.
C15_ExitReleasesResources ==
    mainPc \in Exited =>
        /\ lightrag_client # NoClient => lightrag_client \in closedClients
        /\ (autostart /\ process # NoProcess) => last.op = "stop"

\* C16: the probe of init_lightrag is best effort: whether the API answers
\* "ok", answers another status or the probe raises, init_lightrag returns
\* with the shared facade constructed and is_initialized set, no exception
\* leaves it, and the handler that ran it goes on to its own call.
C16_ProbeIsBestEffort ==
    (inv.tool # "none" /\ inv.probe # "none") =>
        /\ inv.probe \in {"ok", "warning", "error"}
        /\ lightrag_client # NoClient
        /\ is_initialized
        /\ inv.escaped = "none"
        /\ inv.out = Facade(inv.input)

\* The first invocation, its probe answered with something that is no
\* mapping: health.get raised AttributeError inside init_lightrag.
C16_Witness ==
    /\ inv.tool # "none"
    /\ inv.probe = "error"
    /\ inv.probeExc = "AttributeError"
    /\ is_initialized
    /\ lightrag_client = 1
    /\ Len(inv.out.calls) = 1

\* C20: no tool invocation writes the shared state: the facade handle
\* server.lightrag_client and the handle of the supervised subprocess are
\* after the invocation what they were before it.
C20_ToolsLeaveSharedStateAlone ==
    inv.tool # "none" =>
        /\ lightrag_client = inv.clientBefore
        /\ process = inv.processBefore

(***************************************************************************)
(* Concurrent tool invocations: claim C17, checked under AsyncSpec.        *)
(***************************************************************************)

\* C17: however the tool invocations interleave at their awaits, also when
\* some arrive while the probe of the first is awaited, one LightRAGClient at
\* most is ever constructed and every invocation that reaches its facade call
\* makes it on that instance, the one server.lightrag_client holds.
C17_OneFacadeInstance ==
    /\ clientsBuilt <= 1
    /\ \A t \in TaskIds :
          tasks[t].pc \in {"await_api", "done"} =>
              /\ tasks[t].client = 1
              /\ tasks[t].client = lightrag_client

\* One invocation awaits the probe it started while another, arrived since,
\* awaits its facade call on the instance the first constructed.
C17_Witness ==
    \E a, b \in TaskIds :
        /\ tasks[a].pc = "await_probe"
        /\ tasks[b].pc = "await_api"
        /\ tasks[b].client = 1
        /\ clientsBuilt = 1
        /\ ~is_initialized

(***************************************************************************)
(* The supervisor under concurrent callers: claim C18, checked under       *)
(* RaceSpec; claim C19, checked under SupSpec.                             *)
(***************************************************************************)

\* The subprocesses that run.
Running == {p \in Pids : procState[p] = "running"}

\* C18: however concurrent calls of start, stop and is_running interleave,
\* the test of the handle and the write of it are one step for every other
\* call, so one supervised subprocess at most exists at a time, the one the
\* handle names: two concurrent starts on a stopped supervisor launch one.
C18_AtMostOneSubprocess ==
    /\ Cardinality(Running) <= 1
    /\ \A p \in Running : p = process

\* C19: after a stop() that returned without an exception the supervisor
\* holds no handle, also when the subprocess had exited by itself before
\* stop() was called; is_running() is false and get_pid() gives None.
C19_StopDestroysHandle ==
    (last.op = "stop" /\ last.exc = "none" /\ last.ret) =>
        /\ process = NoProcess
        /\ ~IsRunning
        /\ GetPidValue = NoProcess

(***************************************************************************)
(* Claims C21 and C22, checked under ToolSpec.                             *)
(***************************************************************************)

\* C21: when insert_batch issues its one batch request every file payload
\* the request carries is an open handle: a handle opened while the directory
\* was gathered is closed only after the call has returned or raised.
C21_BatchPayloadsOpenAtRequest ==
    (Invoked("insert_batch") /\ Len(inv.out.calls) = 1) =>
        \A j \in DOMAIN inv.out.calls[1].body.items :
            inv.out.calls[1].body.items[j].open

\* C22: for every tool, a facade call that returns None never ends in the
\* success envelope: the handler answers it with the error envelope.
C22_NoneIsNeverSuccess ==
    (/\ inv.tool # "none"
     /\ inv.escaped = "none"
     /\ inv.out.k = "return"
     /\ inv.out.v.t = "none") =>
        inv.envelope.status = "error"

(***************************************************************************)
(* stop() and the log_output threads: claim C23, checked under SupSpec.    *)
(***************************************************************************)

\* C23: however stop() and the two log_output threads interleave, stop()
\* closes no stream a thread is still reading, and no thread reads from a
\* closed stream: a thread ends at the end of its stream's output alone, with
\* every line forwarded.
C23_DrainEndsAtEndOfOutput ==
    \A p \in Pids, s \in Streams :
        /\ streamState[p][s] = "by_stop" => drain[p][s] # "reading"
        /\ drain[p][s] # "crashed"

====
